---- MODULE Spec2Model ----
(***************************************************************************)
(* TwitterMediaScraper (katatachi/contrib/worker/twitter_media_scraper.py) *)
(* as a state machine: the cursor ("since_id") kept in the worker's        *)
(* metadata store, the upstream timeline it polls, and one run of a worker *)
(* (pre_work, process, post_process) stepping from one blocking call to    *)
(* the next.                                                               *)
(***************************************************************************)
EXTENDS Integers, Sequences, FiniteSets, TLC

\* ---- bounds of the model ------------------------------------------------
\* Tweet ids handed out by the upstream are 1..MaxId.
MaxId == 4
\* self.count, the page size asked of GetUserTimeline. The source sets it to
\* 200, the most the upstream returns in one call; the model scales it with
\* the range of tweet ids and keeps it two below MaxId, so that a window, the
\* one above a stored since_id included, can hold fewer tweets than the
\* timeline has to give.
count == 2

\* ---- names ---------------------------------------------------------------
SINCE_ID_KEY == "since_id"

Identities == {"acct1", "acct2"}

\* The messages a twitter.error.TwitterError can carry.
TwitterErrors == {"Not authorized.", "Rate limit exceeded"}

\* How many media entries a tweet can carry: none, or one.
MediaCounts == {0, 1}

\* The creation timestamps (seconds) of tweets: an earlier and a later one.
Timestamps == {1, 2}

VARIABLES
    screen_name,       \* worker -> the identity it polls (self.screen_name)
    twitter_api,       \* worker -> "None" | "Api" (self.twitter_api)
    metadata_store,    \* worker id -> set of <<key, value>> pairs
    timeline,          \* identity -> set of tweets now visible upstream
    next_id,           \* the id the upstream gives the next tweet
    pc,                \* worker -> position in the run
    init_tweets,       \* worker -> local of process(): the bootstrap fetch
    since_id,          \* worker -> local of process()
    ignore_since_id,   \* worker -> local of process()
    tweets,            \* worker -> local of process(): the fetched window
    i,                 \* worker -> index of the loop over tweets
    new_documents,     \* worker -> local of process(), then its return value
    raised,            \* worker -> the exception that ended the run, or "none"
    cursor_before,     \* worker -> the worker's store when the run started
    trace              \* worker -> calls made by the run so far

vars == <<screen_name, twitter_api, metadata_store, timeline, next_id, pc,
          init_tweets, since_id, ignore_since_id, tweets, i, new_documents,
          raised, cursor_before, trace>>

\* ---- str() and int() on tweet ids ---------------------------------------
Digits == <<"0", "1", "2", "3", "4", "5", "6", "7", "8", "9">>

RECURSIVE IntToStr(_)
\* str(n) for n >= 0: the decimal digits, most significant first.
IntToStr(n) ==
    IF n < 10 THEN <<Digits[n + 1]>>
    ELSE IntToStr(n \div 10) \o <<Digits[(n % 10) + 1]>>

DigitVal(c) == CHOOSE d \in 0..9 : Digits[d + 1] = c

RECURSIVE StrToInt(_)
\* int(s) for a string of decimal digits.
StrToInt(s) ==
    IF Len(s) = 1 THEN DigitVal(s[1])
    ELSE 10 * StrToInt(SubSeq(s, 1, Len(s) - 1)) + DigitVal(s[Len(s)])

\* A worker id that leaves the screen_name out.
get_idShared(w) == <<"twitter_image_scraper">>

\* ---- the metadata store of one worker -----------------------------------
\* get_id(): the key the host scopes the worker's metadata store by.
get_id(w) == <<"twitter_image_scraper", screen_name[w]>>

exists(store, key) == \E p \in store : p[1] = key

get(store, key) == (CHOOSE p \in store : p[1] = key)[2]

set(store, key, value) == {p \in store : p[1] # key} \cup {<<key, value>>}

\* ---- the upstream --------------------------------------------------------
\* The n most recent (greatest id) tweets of S.
MostRecent(S, n) == {t \in S : Cardinality({u \in S : u.id > t.id}) < n}

\* Every order in which the upstream can hand over the tweets of S.
RECURSIVE Orderings(_)
Orderings(S) ==
    IF S = {} THEN {<<>>}
    ELSE UNION {{<<t>> \o s : s \in Orderings(S \ {t})} : t \in S}

\* GetUserTimeline(screen_name, count=n): the lists it can return.
GetUserTimeline(a, n) == Orderings(MostRecent(timeline[a], n))

\* GetUserTimeline(screen_name, since_id, count=n).
GetUserTimelineSince(a, sid, n) ==
    Orderings(MostRecent({t \in timeline[a] : t.id > sid}, n))

\* GetStatus(id) can resolve only a tweet that is still upstream.
StatusResolves(sid) == \E a \in Identities : \E t \in timeline[a] : t.id = sid

\* The test without .lower(): no message of the upstream matches it.
NotAuthorizedCaseSensitive(te) == te = "not authorized"

\* The test dropped: every TwitterError of the probe is taken as a skip.
NotAuthorizedAlways(te) == te \in TwitterErrors

\* "not authorized" in str(te).lower()
NotAuthorized(te) == te = "Not authorized."

\* ---- the extractor hooks -------------------------------------------------
\* media_list_to_documents(extract_media(tweet)): one document per media.
TweetDocuments(t) ==
    [k \in 1..t.media |-> [id |-> t.id, created_at |-> t.created_at, n |-> k]]

document_to_id(d) == IntToStr(d.id)

document_to_created_at_in_seconds(d) == d.created_at

\* min in place of max.
MinByCreatedAt(seq) ==
    LET best == {k \in 1..Len(seq) :
                    \A j \in 1..Len(seq) :
                        document_to_created_at_in_seconds(seq[k])
                            <= document_to_created_at_in_seconds(seq[j])}
        first == CHOOSE k \in best : \A j \in best : k <= j
    IN  seq[first]

\* max(processed_documents, key=self.document_to_created_at_in_seconds):
\* Python's max keeps the first element whose key no element exceeds.
MaxByCreatedAt(seq) ==
    LET best == {k \in 1..Len(seq) :
                    \A j \in 1..Len(seq) :
                        document_to_created_at_in_seconds(seq[j])
                            <= document_to_created_at_in_seconds(seq[k])}
        first == CHOOSE k \in best : \A j \in best : k <= j
    IN  seq[first]

\* max(init_tweets, key=lambda t: t.id)
MaxById(seq) ==
    LET best == {k \in 1..Len(seq) : \A j \in 1..Len(seq) : seq[j].id <= seq[k].id}
        first == CHOOSE k \in best : \A j \in best : k <= j
    IN  seq[first]

\* ---- the run -------------------------------------------------------------
Running == DOMAIN screen_name

Store(w) == metadata_store[get_id(w)]

Log(w, e) == trace' = [trace EXCEPT ![w] = Append(@, e)]

Goto(w, l) == pc' = [pc EXCEPT ![w] = l]

\* An exception of process() after which the host still calls post_process.
RaiseThenPost(w, e) ==
    /\ pc' = [pc EXCEPT ![w] = "post"]
    /\ raised' = [raised EXCEPT ![w] = e]

\* An exception leaves process(): the run is over, post_process is not called.
Raise(w, e) ==
    /\ pc' = [pc EXCEPT ![w] = "failed"]
    /\ raised' = [raised EXCEPT ![w] = e]

\* process() returns docs: the host hands them to post_process.
Return(w, docs) ==
    /\ pc' = [pc EXCEPT ![w] = "post"]
    /\ new_documents' = [new_documents EXCEPT ![w] = docs]
    /\ raised' = raised

pre_work(w) ==
    /\ pc[w] = "idle"
    /\ twitter_api' = [twitter_api EXCEPT ![w] = "Api"]
    /\ pc' = [pc EXCEPT ![w] = "probe"]
    /\ init_tweets' = [init_tweets EXCEPT ![w] = <<>>]
    /\ since_id' = [since_id EXCEPT ![w] = 0]
    /\ ignore_since_id' = [ignore_since_id EXCEPT ![w] = FALSE]
    /\ tweets' = [tweets EXCEPT ![w] = <<>>]
    /\ i' = [i EXCEPT ![w] = 0]
    /\ new_documents' = [new_documents EXCEPT ![w] = <<>>]
    /\ raised' = [raised EXCEPT ![w] = "none"]
    /\ cursor_before' = [cursor_before EXCEPT ![w] = Store(w)]
    /\ trace' = [trace EXCEPT ![w] = <<>>]
    /\ UNCHANGED <<screen_name, metadata_store, timeline, next_id>>

\* process(), lines 61-71: the availability probe.
Probe(w) ==
    /\ pc[w] = "probe"
    /\ twitter_api[w] = "Api"
    /\ \/ /\ Log(w, "probe_ok")
          /\ Goto(w, "exists")
          /\ UNCHANGED <<new_documents, raised>>
       \/ \E te \in TwitterErrors :
            /\ trace' = [trace EXCEPT ![w] = @ \o <<"probe_err", te>>]
            /\ IF NotAuthorized(te)
               THEN Return(w, <<>>)
               ELSE Raise(w, te) /\ UNCHANGED new_documents
    /\ UNCHANGED <<screen_name, twitter_api, metadata_store, timeline, next_id,
                   init_tweets, since_id, ignore_since_id, tweets, i, cursor_before>>

\* process() where the bootstrap is taken whether or not a since_id is stored.
ExistsAlwaysBootstrap(w) ==
    /\ pc[w] = "exists"
    /\ Log(w, "exists")
    /\ Goto(w, "init_fetch")
    /\ UNCHANGED <<screen_name, twitter_api, metadata_store, timeline, next_id,
                   init_tweets, since_id, ignore_since_id, tweets, i,
                   new_documents, raised, cursor_before>>

\* The bootstrap left out: with nothing stored the run goes on with since_id
\* as it was initialised.
ExistsNoBootstrap(w) ==
    /\ pc[w] = "exists"
    /\ Log(w, "exists")
    /\ IF ~exists(Store(w), SINCE_ID_KEY) THEN Goto(w, "status") ELSE Goto(w, "get")
    /\ UNCHANGED <<screen_name, twitter_api, metadata_store, timeline, next_id,
                   init_tweets, since_id, ignore_since_id, tweets, i,
                   new_documents, raised, cursor_before>>

\* process(), line 74: is a since_id stored?
Exists(w) ==
    /\ pc[w] = "exists"
    /\ Log(w, "exists")
    /\ IF ~exists(Store(w), SINCE_ID_KEY) THEN Goto(w, "init_fetch") ELSE Goto(w, "get")
    /\ UNCHANGED <<screen_name, twitter_api, metadata_store, timeline, next_id,
                   init_tweets, since_id, ignore_since_id, tweets, i,
                   new_documents, raised, cursor_before>>

\* process() where a bootstrap that got no tweet ends the run quietly instead
\* of raising.
InitFetchSkipsEmpty(w) ==
    /\ pc[w] = "init_fetch"
    /\ Log(w, "init_fetch")
    /\ \/ \E te \in TwitterErrors :
            Raise(w, te) /\ UNCHANGED <<init_tweets, new_documents>>
       \/ \E got \in GetUserTimeline(screen_name[w], 1) :
            IF got = <<>>
            THEN Return(w, <<>>) /\ UNCHANGED init_tweets
            ELSE /\ init_tweets' = [init_tweets EXCEPT ![w] = got]
                 /\ Goto(w, "init_set")
                 /\ UNCHANGED <<raised, new_documents>>
    /\ UNCHANGED <<screen_name, twitter_api, metadata_store, timeline, next_id,
                   since_id, ignore_since_id, tweets, i, cursor_before>>

\* process(), lines 76-82: fetch the most recent tweet to start from.
InitFetch(w) ==
    /\ pc[w] = "init_fetch"
    /\ Log(w, "init_fetch")
    /\ \/ \E te \in TwitterErrors : Raise(w, te) /\ UNCHANGED init_tweets
       \/ \E got \in GetUserTimeline(screen_name[w], 1) :
            IF got = <<>>
            THEN Raise(w, "RuntimeError") /\ UNCHANGED init_tweets
            ELSE /\ init_tweets' = [init_tweets EXCEPT ![w] = got]
                 /\ Goto(w, "init_set")
                 /\ UNCHANGED raised
    /\ UNCHANGED <<screen_name, twitter_api, metadata_store, timeline, next_id,
                   since_id, ignore_since_id, tweets, i, new_documents, cursor_before>>

\* process() where the bootstrap stores the id before the tweet it fetched.
InitSetBeforeFirst(w) ==
    /\ pc[w] = "init_set"
    /\ Log(w, "set")
    /\ LET init_since_id == MaxById(init_tweets[w]).id - 1
       IN  metadata_store' = [metadata_store EXCEPT ![get_id(w)] =
                                set(@, SINCE_ID_KEY, IntToStr(init_since_id))]
    /\ init_tweets' = [init_tweets EXCEPT ![w] = <<>>]
    /\ Goto(w, "get")
    /\ UNCHANGED <<screen_name, twitter_api, timeline, next_id,
                   since_id, ignore_since_id, tweets, i, new_documents, raised,
                   cursor_before>>

\* process(), lines 83-86: store the initial since_id.
InitSet(w) ==
    /\ pc[w] = "init_set"
    /\ Log(w, "set")
    /\ LET init_since_id == MaxById(init_tweets[w]).id
       IN  metadata_store' = [metadata_store EXCEPT ![get_id(w)] =
                                set(@, SINCE_ID_KEY, IntToStr(init_since_id))]
    /\ init_tweets' = [init_tweets EXCEPT ![w] = <<>>]
    /\ Goto(w, "get")
    /\ UNCHANGED <<screen_name, twitter_api, timeline, next_id,
                   since_id, ignore_since_id, tweets, i, new_documents, raised,
                   cursor_before>>

\* process(), line 89: read the stored since_id.
Get(w) ==
    /\ pc[w] = "get"
    /\ exists(Store(w), SINCE_ID_KEY)
    /\ Log(w, "get")
    /\ since_id' = [since_id EXCEPT ![w] = StrToInt(get(Store(w), SINCE_ID_KEY))]
    /\ Goto(w, "status")
    /\ UNCHANGED <<screen_name, twitter_api, metadata_store, timeline, next_id,
                   init_tweets, ignore_since_id, tweets, i, new_documents, raised,
                   cursor_before>>

\* process(), lines 91-99: does the stored since_id still resolve upstream?
Status(w) ==
    /\ pc[w] = "status"
    /\ \/ /\ StatusResolves(since_id[w])
          /\ Log(w, "status_ok")
          /\ ignore_since_id' = [ignore_since_id EXCEPT ![w] = FALSE]
       \/ \E te \in TwitterErrors :
            /\ Log(w, "status_err")
            /\ ignore_since_id' = [ignore_since_id EXCEPT ![w] = TRUE]
    /\ Goto(w, "fetch")
    /\ UNCHANGED <<screen_name, twitter_api, metadata_store, timeline, next_id,
                   init_tweets, since_id, tweets, i, new_documents, raised,
                   cursor_before>>

\* The since call made without count: it returns every tweet above the
\* since_id.
WindowSinceUnpaged(w) ==
    IF ~ignore_since_id[w]
    THEN [call |-> "since",
          lists |-> GetUserTimelineSince(screen_name[w], since_id[w], MaxId)]
    ELSE [call |-> "recent",
          lists |-> GetUserTimeline(screen_name[w], count)]

\* The since call made without its since_id: it returns the most recent
\* tweets whatever the cursor.
WindowSinceDropped(w) ==
    IF ~ignore_since_id[w]
    THEN [call |-> "since",
          lists |-> GetUserTimeline(screen_name[w], count)]
    ELSE [call |-> "recent",
          lists |-> GetUserTimeline(screen_name[w], count)]

\* The test of ignore_since_id inverted.
WindowInverted(w) ==
    IF ignore_since_id[w]
    THEN [call |-> "since",
          lists |-> GetUserTimelineSince(screen_name[w], since_id[w], count)]
    ELSE [call |-> "recent",
          lists |-> GetUserTimeline(screen_name[w], count)]

\* The call process() makes for the window, lines 101-114, and the lists it
\* can return.
Window(w) ==
    IF ~ignore_since_id[w]
    THEN [call |-> "since",
          lists |-> GetUserTimelineSince(screen_name[w], since_id[w], count)]
    ELSE [call |-> "recent",
          lists |-> GetUserTimeline(screen_name[w], count)]

\* process(), lines 101-118: fetch the window; nothing fetched ends the run.
Fetch(w) ==
    /\ pc[w] = "fetch"
    /\ Log(w, Window(w).call)
    /\ \/ \E te \in TwitterErrors :
            Raise(w, te) /\ UNCHANGED <<tweets, i, new_documents>>
       \/ \E got \in Window(w).lists :
            /\ tweets' = [tweets EXCEPT ![w] = got]
            /\ IF got = <<>>
               THEN Return(w, <<>>) /\ UNCHANGED i
               ELSE /\ Goto(w, "extract")
                    /\ i' = [i EXCEPT ![w] = 1]
                    /\ new_documents' = [new_documents EXCEPT ![w] = <<>>]
                    /\ UNCHANGED raised
    /\ UNCHANGED <<screen_name, twitter_api, metadata_store, timeline, next_id,
                   init_tweets, since_id, ignore_since_id, cursor_before>>

RECURSIVE DocumentsOf(_, _)
\* new_documents after the loop of lines 123-125 has taken the first k tweets.
DocumentsOf(seq, k) ==
    IF k = 0 THEN <<>> ELSE DocumentsOf(seq, k - 1) \o TweetDocuments(seq[k])

\* process(), lines 120-127: the loop over the fetched tweets. The extractor
\* either raises at some tweet k, which ends process() there, or the loop
\* takes every tweet and process() returns the documents.
Extract(w) ==
    /\ pc[w] = "extract"
    /\ \/ \E k \in 1..Len(tweets[w]) :
            /\ i' = [i EXCEPT ![w] = k]
            /\ new_documents' = [new_documents EXCEPT ![w] = DocumentsOf(tweets[w], k - 1)]
            /\ Raise(w, "ExtractError")
       \/ /\ i' = [i EXCEPT ![w] = Len(tweets[w])]
          /\ Return(w, DocumentsOf(tweets[w], Len(tweets[w])))
    /\ UNCHANGED <<screen_name, twitter_api, metadata_store, timeline, next_id,
                   init_tweets, since_id, ignore_since_id, tweets, cursor_before,
                   trace>>

\* post_process that forgets the cursor when a run made no document.
post_processClearsOnEmpty(w) ==
    /\ pc[w] = "post"
    /\ LET processed_documents == new_documents[w]
       IN  IF processed_documents = <<>>
           THEN /\ Log(w, "post")
                /\ metadata_store' = [metadata_store EXCEPT ![get_id(w)] = {}]
           ELSE /\ trace' = [trace EXCEPT ![w] = @ \o <<"post", "post_set">>]
                /\ metadata_store' = [metadata_store EXCEPT ![get_id(w)] =
                       set(@, SINCE_ID_KEY,
                           document_to_id(MaxByCreatedAt(processed_documents)))]
    /\ Goto(w, "done")
    /\ UNCHANGED <<screen_name, twitter_api, timeline, next_id, init_tweets,
                   since_id, ignore_since_id, tweets, i, new_documents, raised,
                   cursor_before>>

\* post_process without the test of lines 130-132: with no document the
\* cursor is reset to 0.
post_processUnguarded(w) ==
    /\ pc[w] = "post"
    /\ LET processed_documents == new_documents[w]
           new_since_id ==
               IF processed_documents = <<>> THEN IntToStr(0)
               ELSE document_to_id(MaxByCreatedAt(processed_documents))
       IN  /\ trace' = [trace EXCEPT ![w] = @ \o <<"post", "post_set">>]
           /\ metadata_store' = [metadata_store EXCEPT ![get_id(w)] =
                                   set(@, SINCE_ID_KEY, new_since_id)]
    /\ Goto(w, "done")
    /\ UNCHANGED <<screen_name, twitter_api, timeline, next_id, init_tweets,
                   since_id, ignore_since_id, tweets, i, new_documents, raised,
                   cursor_before>>

\* post_process advancing the cursor from the fetched tweets, not from the
\* documents they gave.
post_processFromTweets(w) ==
    /\ pc[w] = "post"
    /\ IF tweets[w] = <<>>
       THEN /\ Log(w, "post")
            /\ UNCHANGED metadata_store
       ELSE /\ trace' = [trace EXCEPT ![w] = @ \o <<"post", "post_set">>]
            /\ metadata_store' = [metadata_store EXCEPT ![get_id(w)] =
                                    set(@, SINCE_ID_KEY, IntToStr(MaxById(tweets[w]).id))]
    /\ Goto(w, "done")
    /\ UNCHANGED <<screen_name, twitter_api, timeline, next_id, init_tweets,
                   since_id, ignore_since_id, tweets, i, new_documents, raised,
                   cursor_before>>

\* post_process(context, processed_documents), lines 129-140.
post_process(w) ==
    /\ pc[w] = "post"
    /\ LET processed_documents == new_documents[w]
       IN  IF processed_documents = <<>>
           THEN /\ Log(w, "post")
                /\ UNCHANGED metadata_store
           ELSE LET new_since_id ==
                        document_to_id(MaxByCreatedAt(processed_documents))
                IN  /\ trace' = [trace EXCEPT ![w] = @ \o <<"post", "post_set">>]
                    /\ metadata_store' = [metadata_store EXCEPT ![get_id(w)] =
                                            set(@, SINCE_ID_KEY, new_since_id)]
    /\ Goto(w, "done")
    /\ UNCHANGED <<screen_name, twitter_api, timeline, next_id, init_tweets,
                   since_id, ignore_since_id, tweets, i, new_documents, raised,
                   cursor_before>>

\* The run's result (the documents, or the exception) goes to the caller and
\* the frame of the run is gone.
report(w) ==
    /\ pc[w] \in {"done", "failed"}
    /\ pc' = [pc EXCEPT ![w] = "idle"]
    /\ init_tweets' = [init_tweets EXCEPT ![w] = <<>>]
    /\ since_id' = [since_id EXCEPT ![w] = 0]
    /\ ignore_since_id' = [ignore_since_id EXCEPT ![w] = FALSE]
    /\ tweets' = [tweets EXCEPT ![w] = <<>>]
    /\ i' = [i EXCEPT ![w] = 0]
    /\ new_documents' = [new_documents EXCEPT ![w] = <<>>]
    /\ raised' = [raised EXCEPT ![w] = "none"]
    /\ cursor_before' = [cursor_before EXCEPT ![w] = {}]
    /\ trace' = [trace EXCEPT ![w] = <<>>]
    /\ UNCHANGED <<screen_name, twitter_api, metadata_store, timeline, next_id>>

\* ---- what the upstream does on its own ----------------------------------
Polled == {screen_name[w] : w \in Running}

\* The timeline is seen only through the upstream calls, so a change of it is
\* taken when some run is about to make one: a change that falls anywhere
\* else is the same change made before the next call.
Polling == \E w \in Running : pc[w] \in {"probe", "init_fetch", "status", "fetch"}

PostTweet(a) ==
    /\ Polling
    /\ next_id <= MaxId
    /\ \E ts \in Timestamps, m \in MediaCounts :
         timeline' = [timeline EXCEPT ![a] =
                        @ \cup {[id |-> next_id, created_at |-> ts, media |-> m]}]
    /\ next_id' = next_id + 1
    /\ UNCHANGED <<screen_name, twitter_api, metadata_store, pc, init_tweets,
                   since_id, ignore_since_id, tweets, i, new_documents, raised,
                   cursor_before, trace>>

DeleteTweet(a) ==
    /\ Polling
    /\ \E t \in timeline[a] : timeline' = [timeline EXCEPT ![a] = @ \ {t}]
    /\ UNCHANGED <<screen_name, twitter_api, metadata_store, next_id, pc,
                   init_tweets, since_id, ignore_since_id, tweets, i,
                   new_documents, raised, cursor_before, trace>>

\* ---- specifications ------------------------------------------------------
\* The state after the workers of sn (worker -> identity) are constructed,
\* when the metadata store of each holds stored, the upstream timelines are tl
\* and the next tweet id is nid.
InitFrom(sn, stored, tl, nid) ==
    /\ screen_name = sn
    /\ twitter_api = [w \in DOMAIN sn |-> "None"]
    /\ metadata_store = [k \in {get_id(w) : w \in DOMAIN sn} |-> stored]
    /\ timeline = tl
    /\ next_id = nid
    /\ pc = [w \in DOMAIN sn |-> "idle"]
    /\ init_tweets = [w \in DOMAIN sn |-> <<>>]
    /\ since_id = [w \in DOMAIN sn |-> 0]
    /\ ignore_since_id = [w \in DOMAIN sn |-> FALSE]
    /\ tweets = [w \in DOMAIN sn |-> <<>>]
    /\ i = [w \in DOMAIN sn |-> 0]
    /\ new_documents = [w \in DOMAIN sn |-> <<>>]
    /\ raised = [w \in DOMAIN sn |-> "none"]
    /\ cursor_before = [w \in DOMAIN sn |-> {}]
    /\ trace = [w \in DOMAIN sn |-> <<>>]

\* The state after the workers of sn are constructed, before any run and any
\* tweet.
InitWith(sn) == InitFrom(sn, {}, [a \in Identities |-> {}], 1)

Next ==
    \/ \E w \in Running : pre_work(w)
    \/ \E w \in Running : Probe(w)
    \/ \E w \in Running : Exists(w)
    \/ \E w \in Running : InitFetch(w)
    \/ \E w \in Running : InitSet(w)
    \/ \E w \in Running : Get(w)
    \/ \E w \in Running : Status(w)
    \/ \E w \in Running : Fetch(w)
    \/ \E w \in Running : Extract(w)
    \/ \E w \in Running : post_process(w)
    \/ \E w \in Running : report(w)
    \/ \E a \in Polled : PostTweet(a)
    \/ \E a \in Polled : DeleteTweet(a)

\* One worker polling one identity, run after run.
Init == InitWith("w1" :> "acct1")

Spec == Init /\ [][Next]_vars

\* One step of a run in flight: process() and post_process are straight-line
\* code of one thread, and every call they make returns or raises.
Run ==
    \E w \in Running :
        \/ Probe(w) \/ Exists(w) \/ InitFetch(w) \/ InitSet(w) \/ Get(w)
        \/ Status(w) \/ Fetch(w) \/ Extract(w) \/ post_process(w)

\* The runs where a started run is not left suspended for ever.
FairSpec == Init /\ [][Next]_vars /\ WF_vars(Run)

\* A tweet posted with one photo before the workers were constructed.
FirstTweet(n) == [id |-> n, created_at |-> 1, media |-> 1]

\* Two workers constructed with the same screen_name, whose runs may overlap,
\* after an earlier run stored the id of the identity's then latest tweet; the
\* identity has posted one tweet since, and one more can be posted.
InitOverlap ==
    InitFrom(("w1" :> "acct1") @@ ("w2" :> "acct1"),
             {<<SINCE_ID_KEY, IntToStr(MaxId - 2)>>},
             [a \in Identities |->
                 IF a = "acct1"
                 THEN {FirstTweet(MaxId - 2), FirstTweet(MaxId - 1)}
                 ELSE {}],
             MaxId)

\* The steps of runs that find a since_id stored: the key is never removed, so
\* the bootstrap of lines 74-86 is not taken.
NextStored ==
    \/ \E w \in Running : pre_work(w)
    \/ \E w \in Running : Probe(w)
    \/ \E w \in Running : Exists(w)
    \/ \E w \in Running : Get(w)
    \/ \E w \in Running : Status(w)
    \/ \E w \in Running : Fetch(w)
    \/ \E w \in Running : Extract(w)
    \/ \E w \in Running : post_process(w)
    \/ \E w \in Running : report(w)
    \/ \E a \in Polled : PostTweet(a)
    \/ \E a \in Polled : DeleteTweet(a)

SpecOverlap == InitOverlap /\ [][NextStored]_vars

\* Two workers constructed with different screen_names, each identity with a
\* tweet and no since_id stored yet; one more tweet can be posted.
InitDistinct ==
    InitFrom(("w1" :> "acct1") @@ ("w2" :> "acct2"),
             {},
             [a \in Identities |->
                 IF a = "acct1" THEN {FirstTweet(MaxId - 2)}
                 ELSE {FirstTweet(MaxId - 1)}],
             MaxId)

SpecDistinct == InitDistinct /\ [][Next]_vars

\* ---- the claims ----------------------------------------------------------
\* What a run has done so far, read off its trace.
Has(w, e) == \E k \in 1..Len(trace[w]) : trace[w][k] = e

Count(w, e) == Cardinality({k \in 1..Len(trace[w]) : trace[w][k] = e})

\* The run issued its windowed fetch (since or recent).
Fetched(w) == Has(w, "since") \/ Has(w, "recent")

HasCursor(w) == exists(Store(w), SINCE_ID_KEY)

Cursor(w) == get(Store(w), SINCE_ID_KEY)

\* C1: the stored cursor never decreases: every write to the cursor key
\* stores a value greater than or equal to the one it replaces.
C1_CursorNeverDecreases ==
    [][\A k \in DOMAIN metadata_store :
          (exists(metadata_store[k], SINCE_ID_KEY)
              /\ exists(metadata_store'[k], SINCE_ID_KEY))
          => StrToInt(get(metadata_store'[k], SINCE_ID_KEY))
                >= StrToInt(get(metadata_store[k], SINCE_ID_KEY))]_vars

\* C2: no windowed fetch is issued while the cursor key does not exist, and in
\* a run that started without a cursor the write of the cursor comes before
\* the windowed fetch.
C2_BootstrapBeforeUse ==
    \A w \in Running :
        /\ pc[w] = "fetch" => HasCursor(w)
        /\ \A k \in 1..Len(trace[w]) :
              trace[w][k] \in {"since", "recent"} =>
                  /\ HasCursor(w)
                  /\ cursor_before[w] = {} =>
                        \E j \in 1..(k - 1) : trace[w][j] = "set"

\* A first run (no cursor stored) that went through the bootstrap and then
\* issued its windowed fetch.
C2_Witness ==
    \E w \in Running :
        cursor_before[w] = {} /\ Has(w, "set") /\ Has(w, "since") /\ pc[w] = "done"

\* C3 as stated: a run whose window is empty ends with an empty output and the
\* store as it was before the run, also when no cursor was stored.
C3_EmptyWindowLeavesStore ==
    \A w \in Running :
        (pc[w] = "done" /\ Fetched(w) /\ tweets[w] = <<>>) =>
            new_documents[w] = <<>> /\ Store(w) = cursor_before[w]

\* C3 amended: a run whose window is empty ends with an empty output and
\* writes nothing after the bootstrap: the cursor is the one the run read, the
\* store is as before the run when a cursor was stored, and when none was the
\* only write is the bootstrap's.
C3_EmptyWindowNoWriteAfterBootstrap ==
    \A w \in Running :
        (pc[w] = "done" /\ Fetched(w) /\ tweets[w] = <<>>) =>
            /\ new_documents[w] = <<>>
            /\ ~Has(w, "post_set")
            /\ HasCursor(w) /\ StrToInt(Cursor(w)) = since_id[w]
            /\ cursor_before[w] # {} => Store(w) = cursor_before[w]
            /\ cursor_before[w] = {} => Count(w, "set") = 1

\* A run that found a cursor stored, fetched an empty window and ended.
C3_Witness ==
    \E w \in Running :
        /\ pc[w] = "done" /\ Fetched(w) /\ tweets[w] = <<>>
        /\ cursor_before[w] # {}

\* C4 as stated: a run whose window is not empty but gives no document leaves
\* the stored cursor as it was before the run.
C4_NoDocumentsLeavesStore ==
    \A w \in Running :
        (pc[w] = "done" /\ tweets[w] # <<>> /\ new_documents[w] = <<>>) =>
            Store(w) = cursor_before[w]

\* C4 amended: in a run whose window is not empty but gives no document,
\* post_process writes nothing: the cursor is the one process() read, equal to
\* the cursor before the run when one was stored.
C4_NoDocumentsNoPostWrite ==
    \A w \in Running :
        (pc[w] = "done" /\ tweets[w] # <<>> /\ new_documents[w] = <<>>) =>
            /\ ~Has(w, "post_set")
            /\ HasCursor(w) /\ StrToInt(Cursor(w)) = since_id[w]
            /\ cursor_before[w] # {} => Store(w) = cursor_before[w]

\* A run that found a cursor, fetched tweets without media and ended.
C4_Witness ==
    \E w \in Running :
        /\ pc[w] = "done" /\ tweets[w] # <<>> /\ new_documents[w] = <<>>
        /\ cursor_before[w] # {}

\* C5: a run issues at most one windowed fetch, and exactly one once it is
\* past validation: the since call iff the lookup of the cursor succeeded, the
\* recent call iff it failed; after a failed lookup the run goes on to the
\* fetch.
C5_WindowChosenByLookup ==
    \A w \in Running :
        /\ Count(w, "since") + Count(w, "recent") <= 1
        /\ Count(w, "status_ok") + Count(w, "status_err") <= 1
        /\ Has(w, "since") => Has(w, "status_ok")
        /\ Has(w, "recent") => Has(w, "status_err")
        /\ (Has(w, "status_ok") \/ Has(w, "status_err")) =>
              IF pc[w] = "fetch"
              THEN ~Fetched(w) /\ raised[w] = "none"
              ELSE /\ Has(w, "status_ok") => Has(w, "since")
                   /\ Has(w, "status_err") => Has(w, "recent")

\* A run whose lookup failed and that went on with the recent window.
C5_Witness ==
    \E w \in Running :
        Has(w, "status_err") /\ Has(w, "recent") /\ pc[w] = "done"
            /\ new_documents[w] # <<>>

\* C6: after an authorization error of the probe the run ends without an
\* exception and with no document, makes no other upstream call, neither reads
\* nor writes the store, and the store is as before the run.
C6_UnauthorizedSkips ==
    \A w \in Running :
        Has(w, "Not authorized.") =>
            /\ pc[w] \in {"post", "done"}
            /\ raised[w] = "none"
            /\ new_documents[w] = <<>>
            /\ Store(w) = cursor_before[w]
            /\ trace[w] \in {<<"probe_err", "Not authorized.">>,
                             <<"probe_err", "Not authorized.", "post">>}

\* A run skipped by an authorization error, with a cursor stored.
C6_Witness ==
    \E w \in Running :
        pc[w] = "done" /\ Has(w, "Not authorized.") /\ cursor_before[w] # {}

\* C7: post_process with documents writes the cursor once, and the value is
\* the identifier of a document whose creation timestamp no document of the
\* set exceeds.
C7_CursorIsMaxTimestampDocument ==
    \A w \in Running :
        (pc[w] = "done" /\ new_documents[w] # <<>>) =>
            /\ Count(w, "post_set") = 1
            /\ HasCursor(w)
            /\ \E k \in 1..Len(new_documents[w]) :
                  /\ Cursor(w) = document_to_id(new_documents[w][k])
                  /\ \A j \in 1..Len(new_documents[w]) :
                        new_documents[w][j].created_at
                            <= new_documents[w][k].created_at

\* A run that ended with two documents, the later one second in the list.
C7_Witness ==
    \E w \in Running :
        /\ pc[w] = "done" /\ Len(new_documents[w]) = 2
        /\ new_documents[w][1].created_at < new_documents[w][2].created_at

\* The greatest tweet id among the documents of docs with the greatest
\* creation timestamp.
TieBreakId(docs) ==
    LET top == {k \in 1..Len(docs) :
                   \A j \in 1..Len(docs) : docs[j].created_at <= docs[k].created_at}
    IN  CHOOSE n \in {docs[k].id : k \in top} :
            \A k \in top : docs[k].id <= n

\* C8: when documents share the greatest creation timestamp, the cursor
\* written is the identifier of the one from the tweet with the greatest id,
\* whatever the order of the list.
C8_TieBrokenByOrdinal ==
    \A w \in Running :
        (pc[w] = "done" /\ new_documents[w] # <<>>) =>
            Cursor(w) = IntToStr(TieBreakId(new_documents[w]))

\* C9: a run that fails by an error of the probe, by a bootstrap that got no
\* tweet or by an exception of the extractor leaves the store as it was before
\* the run.
C9_FailedRunLeavesStore ==
    \A w \in Running :
        (/\ pc[w] = "failed"
         /\ \/ Has(w, "probe_err")
            \/ raised[w] \in {"RuntimeError", "ExtractError"}) =>
            Store(w) = cursor_before[w]

\* C10: after an error of the probe that is not an authorization error the run
\* has failed with that error, and made no other call: no bootstrap, no
\* validation, no fetch, no post_process.
C10_ProbeErrorIsFatal ==
    \A w \in Running :
        (Has(w, "probe_err") /\ ~Has(w, "Not authorized.")) =>
            /\ pc[w] = "failed"
            /\ raised[w] = trace[w][2]
            /\ Len(trace[w]) = 2

\* A run failed by a rate-limit error of the probe.
C10_Witness ==
    \E w \in Running :
        pc[w] = "failed" /\ trace[w] = <<"probe_err", "Rate limit exceeded">>

\* C11: the bootstrap fetch is made only in a run that found no since_id
\* stored; once it has been made, either an initial since_id is being or has
\* been stored, or the run has failed and the key is still absent; a run that
\* raised the RuntimeError of the empty bootstrap has failed right after that
\* fetch.
C11_EmptyBootstrapIsFatal ==
    \A w \in Running :
        /\ Has(w, "init_fetch") => cursor_before[w] = {}
        /\ (Has(w, "init_fetch") /\ pc[w] # "init_set" /\ ~Has(w, "set")) =>
               pc[w] = "failed" /\ ~HasCursor(w)
        /\ raised[w] = "RuntimeError" =>
               /\ pc[w] = "failed"
               /\ trace[w][Len(trace[w])] = "init_fetch"
               /\ ~HasCursor(w)

\* A run that found no since_id and no tweet to start from, and failed.
C11_Witness ==
    \E w \in Running :
        /\ pc[w] = "failed"
        /\ raised[w] = "RuntimeError"
        /\ cursor_before[w] = {}
        /\ timeline[screen_name[w]] = {}

\* C12 as stated: a run that bootstrapped ends with no document and with the
\* since_id it stored at the bootstrap.
C12_BootstrapRunIsEmpty ==
    \A w \in Running :
        (pc[w] = "done" /\ Has(w, "set")) =>
            /\ new_documents[w] = <<>>
            /\ Cursor(w) = IntToStr(since_id[w])

\* C12: the bootstrap stores, as a decimal string, the id of the tweet its
\* fetch returned; that run then ends with no document and with that since_id
\* still stored when its windowed fetch returned no tweet.
C12_BootstrapStoresOrdinal ==
    /\ [][\A w \in Running :
            (pc[w] = "init_set" /\ pc'[w] = "get") =>
                metadata_store'[get_id(w)] =
                    {<<SINCE_ID_KEY, IntToStr(init_tweets[w][1].id)>>}]_vars
    /\ [](\A w \in Running :
            (Has(w, "set") /\ pc[w] \in {"post", "done"} /\ tweets[w] = <<>>) =>
                /\ new_documents[w] = <<>>
                /\ Has(w, "get")
                /\ Cursor(w) = IntToStr(since_id[w]))

\* A run that bootstrapped on a tweet with media, found nothing newer and
\* ended with that tweet's id stored and no document.
C12_Witness ==
    \E w \in Running :
        /\ pc[w] = "done"
        /\ Has(w, "set") /\ Has(w, "since")
        /\ tweets[w] = <<>> /\ new_documents[w] = <<>>
        /\ \E t \in timeline[screen_name[w]] :
              t.media > 0 /\ Cursor(w) = IntToStr(t.id)

\* C13: when the extractor raised at one fetched tweet, the run still goes on
\* to post_process, and the documents of every other fetched tweet are in its
\* output.
C13_ExtractionFailureIsolated ==
    \A w \in Running :
        raised[w] = "ExtractError" =>
            /\ pc[w] \in {"post", "done"}
            /\ \A k \in (1..Len(tweets[w])) \ {i[w]} :
                  \A d \in 1..Len(TweetDocuments(tweets[w][k])) :
                      \E n \in 1..Len(new_documents[w]) :
                          new_documents[w][n] = TweetDocuments(tweets[w][k])[d]

\* The lifecycle phase a run is in; PRE is the step pre_work itself.
Phase(w) ==
    CASE pc[w] = "idle" -> "IDLE"
      [] pc[w] = "post" -> "POST"
      [] pc[w] \in {"done", "failed"} -> "DONE"
      [] OTHER -> "PROCESS"

\* C14: a run goes through PRE, PROCESS, POST and DONE in that order: PRE
\* always leads to PROCESS, PROCESS leads to POST only when process() returned
\* and to DONE (failed) when it raised, POST leads to DONE; a failed run never
\* called post_process, no phase is entered twice in a run, and every run in
\* flight reaches DONE.
C14_Lifecycle ==
    /\ [][\A w \in Running :
            Phase(w)' # Phase(w) =>
                /\ <<Phase(w), Phase(w)'>> \in
                       {<<"IDLE", "PROCESS">>, <<"PROCESS", "POST">>,
                        <<"PROCESS", "DONE">>, <<"POST", "DONE">>,
                        <<"DONE", "IDLE">>}
                /\ Phase(w) = "IDLE" => twitter_api'[w] = "Api" /\ pc'[w] = "probe"
                /\ Phase(w)' = "POST" => raised'[w] = "none"
                /\ (Phase(w) = "PROCESS" /\ Phase(w)' = "DONE") =>
                       pc'[w] = "failed" /\ raised'[w] # "none"
                /\ Phase(w) = "POST" => pc'[w] = "done"]_vars
    /\ [](\A w \in Running :
            /\ pc[w] = "failed" => (~Has(w, "post") /\ raised[w] # "none")
            /\ Count(w, "post") <= 1
            /\ Count(w, "probe_ok") + Count(w, "probe_err") <= 1)
    /\ (\E w \in Running : Phase(w) \in {"PROCESS", "POST"})
           ~> (\E w \in Running : Phase(w) = "DONE")

\* A run that went through every phase and wrote the cursor in POST.
C14_Witness ==
    \E w \in Running :
        pc[w] = "done" /\ Has(w, "probe_ok") /\ Has(w, "post_set")

\* C15: a run that took the since window lowers the stored since_id at its
\* write only when the store no longer holds the since_id the run read, that
\* is, when another run of the same identity wrote it in between; runs that do
\* not overlap find the store as they read it and write an id above it.
C15_LostUpdateOnlyWhenOverlapping ==
    [][\A w \in Running :
          (/\ pc[w] = "post" /\ pc'[w] = "done"
           /\ Has(w, "since")
           /\ StrToInt(Cursor(w)') < StrToInt(Cursor(w))) =>
              StrToInt(Cursor(w)) # since_id[w]]_vars

\* Two overlapping runs read the same since_id and took the since window; one
\* wrote the id of a newer tweet, then the other overwrote it with an older id.
C15_Witness ==
    \E w, v \in Running :
        /\ w # v /\ screen_name[w] = screen_name[v]
        /\ pc[w] = "done" /\ pc[v] = "done"
        /\ Has(w, "since") /\ Has(v, "since")
        /\ since_id[w] = since_id[v]
        /\ Has(w, "post_set") /\ Has(v, "post_set")
        /\ Cursor(w) = document_to_id(MaxByCreatedAt(new_documents[w]))
        /\ StrToInt(Cursor(w)) <
               StrToInt(document_to_id(MaxByCreatedAt(new_documents[v])))

\* C16: a step of a run leaves the since_id of every other identity as it was;
\* and the since_id of a run's own identity is, all through the run, the one
\* the run found, bootstrapped or wrote itself, whatever the runs of other
\* identities do meanwhile.
C16_IdentitiesIndependent ==
    /\ [][\A w, v \in Running :
            (pc'[w] # pc[w] /\ screen_name[v] # screen_name[w]) =>
                metadata_store'[get_id(v)] = metadata_store[get_id(v)]]_vars
    /\ [](\A w \in Running :
            /\ (pc[w] # "idle" /\ ~Has(w, "set") /\ ~Has(w, "post_set")) =>
                   Store(w) = cursor_before[w]
            /\ (Has(w, "get") /\ ~Has(w, "post_set")) =>
                   Cursor(w) = IntToStr(since_id[w])
            /\ Has(w, "post_set") =>
                   Cursor(w) = document_to_id(MaxByCreatedAt(new_documents[w])))

\* A run of one identity has written its since_id while a run of the other
\* identity, holding a different since_id, is between its read and its write.
C16_Witness ==
    \E w, v \in Running :
        /\ screen_name[w] # screen_name[v]
        /\ pc[w] = "done" /\ Has(w, "post_set")
        /\ pc[v] \in {"status", "fetch", "extract", "post"} /\ Has(v, "get")
        /\ Store(w) # cursor_before[w]
        /\ Cursor(v) # Cursor(w)

\* C17: in a run whose GetStatus found the since_id, the fetched window holds
\* at most count tweets, each with an id above the since_id the run read, the
\* loop takes no more than those, and every document comes from one of them.
C17_LiveWindowAboveCursor ==
    \A w \in Running :
        Has(w, "status_ok") =>
            /\ Len(tweets[w]) <= count
            /\ i[w] <= Len(tweets[w])
            /\ \A k \in 1..Len(tweets[w]) : tweets[w][k].id > since_id[w]
            /\ \A n \in 1..Len(new_documents[w]) :
                  /\ new_documents[w][n].id > since_id[w]
                  /\ \E k \in 1..Len(tweets[w]) :
                        tweets[w][k].id = new_documents[w][n].id

\* A run on a live since_id with more than count newer tweets upstream took
\* count of them and made documents.
C17_Witness ==
    \E w \in Running :
        /\ pc[w] = "done"
        /\ Has(w, "status_ok")
        /\ Len(tweets[w]) = count
        /\ new_documents[w] # <<>>
        /\ Cardinality({t \in timeline[screen_name[w]] : t.id > since_id[w]}) > count

\* C18: the metadata store changes only at the bootstrap set of a run that
\* found no since_id stored, and at post_process; a run that found a since_id
\* stored makes no set in process(), leaves the store as it found it until
\* post_process, and writes it there at most once.
C18_ProcessOnlyReadsStoredCursor ==
    /\ [][\A w \in Running :
            metadata_store'[get_id(w)] # metadata_store[get_id(w)] =>
                \/ pc[w] = "init_set" /\ cursor_before[w] = {}
                \/ pc[w] = "post"]_vars
    /\ [](\A w \in Running :
            /\ Count(w, "set") <= 1
            /\ cursor_before[w] # {} =>
                  /\ ~Has(w, "set") /\ ~Has(w, "init_fetch")
                  /\ Count(w, "post_set") <= 1
                  /\ ~Has(w, "post_set") => Store(w) = cursor_before[w]
                  /\ Has(w, "post_set") => pc[w] = "done")

\* A run that found a since_id stored and replaced it in post_process.
C18_Witness ==
    \E w \in Running :
        /\ pc[w] = "done"
        /\ cursor_before[w] # {}
        /\ Has(w, "post_set")
        /\ Store(w) # cursor_before[w]

\* C19: no step removes the since_id key from a metadata store that holds it;
\* hence a run that found the key stored makes neither the bootstrap fetch nor
\* the bootstrap set, which happen only in a run that found no key, and goes
\* from the probe through exists() and get() straight to GetStatus.
C19_CursorKeyPersists ==
    /\ [][\A k \in DOMAIN metadata_store :
            exists(metadata_store[k], SINCE_ID_KEY) =>
                exists(metadata_store'[k], SINCE_ID_KEY)]_vars
    /\ [](\A w \in Running :
            /\ (Has(w, "init_fetch") \/ Has(w, "set")) => cursor_before[w] = {}
            /\ (cursor_before[w] # {} /\ Has(w, "probe_ok")) =>
                  /\ HasCursor(w)
                  /\ pc[w] # "init_fetch" /\ pc[w] # "init_set"
                  /\ \A n \in 1..Len(trace[w]) :
                        /\ n = 2 => trace[w][n] = "exists"
                        /\ n = 3 => trace[w][n] = "get"
                        /\ n = 4 => trace[w][n] \in {"status_ok", "status_err"})

\* A later run: it found the since_id of an earlier run, and went from the
\* probe to GetStatus with no bootstrap.
C19_Witness ==
    \E w \in Running :
        /\ cursor_before[w] # {}
        /\ pc[w] = "fetch"
        /\ trace[w] = <<"probe_ok", "exists", "get", "status_ok">>

\* C20: the since_id a run on the since window writes in post_process is at
\* least the id of every tweet that gave a document in that run, so the since
\* window of the next run holds none of them again.
C20_NoRefetchAfterLiveRun ==
    \A w \in Running :
        (pc[w] = "done" /\ Has(w, "since") /\ Has(w, "post_set")) =>
            \A n \in 1..Len(new_documents[w]) :
                new_documents[w][n].id <= StrToInt(Cursor(w))

====
